---- MODULE Spec2Model ----
(***************************************************************************)
(* Model of WorkerBlockDispatcher                                          *)
(* (packages/node-core/src/indexer/blockDispatcher/                        *)
(*  worker-block-dispatcher.ts).                                           *)
(*                                                                         *)
(* One action per run-to-completion segment of the JavaScript code: an     *)
(* async function is split at each of its awaits.  The first segment of    *)
(* onApplicationShutdown is three steps that nothing else interleaves      *)
(* with, so that the order of its statements shows in the states.  Worker  *)
(* calls, the two hooks and the reset of the counter are made by the       *)
(* environment.                                                            *)
(* Pool indices are 0-based as in the code; statuses is the array built by *)
(* workers.map, so statuses[k + 1] is the answer of workers[k].            *)
(*                                                                         *)
(* Not modelled: the queue's capacity (the caller sizes its batches by the *)
(* queue's free space), the per-task timeout, the assert on a missing      *)
(* worker (thread ids are 1..N in pool order, so the index is in range),   *)
(* and sampleWorkerStatus, which only reads and logs.                      *)
(***************************************************************************)
EXTENDS Integers, Sequences, FiniteSets

VARIABLES
    latestBufferedHeight,  \* this._latestBufferedHeight
    isShutdown,            \* this.isShutdown
    call,                  \* the most recent enqueueBlocks invocation
    ncalls,                \* number of enqueueBlocks invocations so far
    units,                 \* one record per enqueueBlock that passed the shutdown check
    fetchCalls,            \* per pool index: number of fetchBlock calls started
    putCalls,              \* number of queue.put calls
    queue,                 \* AutoQueue: tasks admitted and not yet started (unit ids)
    running,               \* AutoQueue: the tasks being executed (unit ids)
    aborted,               \* AutoQueue: abort() was called
    shutdownPc,            \* position of onApplicationShutdown: none, flagged,
                           \* aborted, terminating, done
    terminateCalls,        \* per pool index: number of terminate() calls
    terminating,           \* pool indices whose terminate() promise is pending
    exitCalls,             \* number of process.exit calls
    exitCode,              \* status passed to process.exit
    resets                 \* number of external resets of the counter

vars == <<latestBufferedHeight, isShutdown, call, ncalls, units, fetchCalls,
          putCalls, queue, running, aborted, shutdownPc, terminateCalls,
          terminating, exitCalls, exitCode, resets>>

----------------------------------------------------------------------------
(* Bounds of the model *)

NumWorkers == 2      \* nodeConfig.workers
MaxHeight == 1       \* heights are 0..MaxHeight
MaxBatch == 2        \* longest batch passed to enqueueBlocks
MaxCalls == 2        \* enqueueBlocks invocations
MaxUnits == 2        \* units of work assigned in one run
MaxBacklog == 1      \* toFetchBlocks reported by a worker is 0..MaxBacklog
MaxResets == 1       \* external resets of the counter
MaxCallsShort == 1   \* enqueueBlocks invocations in SpecTimeout and SpecFair

(* Program constants *)

ExitStatus == 1          \* process.exit(1)

None == -1               \* undefined (no latestBufferHeight argument, no value)

Pool == 0 .. (NumWorkers - 1)
Heights == 0 .. MaxHeight

\* this.workers after init(): worker k was created k-th and has threadId k + 1
workers == [k \in Pool |-> [threadId |-> k + 1]]

\* Batches passed by the caller: runs of consecutive ascending heights
InputBatches ==
    {<<>>} \cup
    { b \in UNION { [1 .. n -> Heights] : n \in 1 .. MaxBatch } :
        \A i \in 2 .. Len(b) : b[i] = b[i - 1] + 1 }

\* latestBufferHeight argument: absent or a height
InputLatest == {None} \cup Heights

\* Error classes seen by the catch block of processBlock
Errors == {"flushed", "unavailable", "error"}
Outcomes == {"ok"} \cup Errors
FetchOutcomes == {"ok", "unavailable", "error"}

----------------------------------------------------------------------------
(* enqueueBlocks, synchronous helpers *)

\* !!latestBufferHeight
Truthy(latestBufferHeight) == latestBufferHeight # None /\ latestBufferHeight # 0

\* if (!!latestBufferHeight && !heights.length) heights = [latestBufferHeight]
BypassHeights(heights, latestBufferHeight) ==
    IF Truthy(latestBufferHeight) /\ Len(heights) = 0
    THEN <<latestBufferHeight>>
    ELSE heights

\* lodash last(): undefined on an empty array
last(heights) == IF Len(heights) = 0 THEN None ELSE heights[Len(heights)]

\* faulty variant: a || b (0 taken as absent)
CoalesceTruthy(a, b) == IF a # None /\ a # 0 THEN a ELSE b

\* a ?? b
Coalesce(a, b) == IF a # None THEN a ELSE b

\* latestBufferHeight ?? last(heights) ?? this.latestBufferedHeight
NextBufferedHeight(latestBufferHeight, heights, current) ==
    Coalesce(latestBufferHeight, Coalesce(last(heights), current))

----------------------------------------------------------------------------
(* getNextWorkerIndex *)

RECURSIVE MinOfSeq(_)
\* Math.min(...metric)
MinOfSeq(metric) ==
    IF Len(metric) = 1 THEN metric[1]
    ELSE LET m == MinOfSeq(Tail(metric))
         IN  IF metric[1] < m THEN metric[1] ELSE m

\* statuses.map((s) => s.toFetchBlocks)
Metric(statuses) == [k \in 1 .. Len(statuses) |-> statuses[k].toFetchBlocks]

LowestTest(s, m) == s.toFetchBlocks = m

\* statuses.filter((s) => s.toFetchBlocks === Math.min(...metric))
Lowest(statuses) ==
    LET m == MinOfSeq(Metric(statuses))
    IN  SelectSeq(statuses, LAMBDA s : LowestTest(s, m))

\* Math.floor(Math.random() * lowest.length): any of 0 .. lowest.length - 1
RandIndexes(lowest) == 0 .. (Len(lowest) - 1)

\* faulty variant: the index into lowest returned as the pool index
NextWorkerIndexOfLowest(statuses, randIndex) == randIndex

\* lowest[randIndex].threadId - 1
NextWorkerIndex(statuses, randIndex) ==
    Lowest(statuses)[randIndex + 1].threadId - 1

\* Promise.all(this.workers.map((worker) => worker.getStatus())) for backlogs b
StatusesOf(b) ==
    [k \in 1 .. NumWorkers |->
        [threadId |-> workers[k - 1].threadId, toFetchBlocks |-> b[k]]]

----------------------------------------------------------------------------
(* enqueueBlock *)

\* faulty variant: no shutdown check
AssignGuardMissing(shutdown) == TRUE

\* if (this.isShutdown) return
AssignGuard(shutdown) == ~shutdown

\* The unit of work created by one enqueueBlock(height, workerIdx)
NewUnit(height, workerIdx, bufferedHeight, callId) ==
    [height         |-> height,
     workerIdx      |-> workerIdx,
     bufferedHeight |-> bufferedHeight,   \* const bufferedHeight = this.latestBufferedHeight
     call           |-> callId,
     fetch          |-> "pending",        \* const pendingBlock = this.fetchBlock(worker, height)
     pc             |-> "queued",         \* this.queue.put(processBlock)
     stale          |-> "unchecked",      \* was the fence above the counter at the check
     pre            |-> FALSE,            \* preProcessBlock invoked
     proc           |-> FALSE,            \* worker.processBlock invoked
     post           |-> FALSE,            \* postProcessBlock invoked
     caught         |-> "none",           \* error class caught by the task
     raisedBy       |-> "none",           \* call that raised it
     result         |-> "none",           \* how processBlock ended
     resetBelow     |-> FALSE,            \* counter reset below height before the check
     staleAtRun     |-> "unchecked",      \* was the fence above the counter when the task
                                          \* resumed from `await pendingBlock`
     resetAfter     |-> FALSE,            \* counter reset below the fence after the check
     procOn         |-> None,             \* pool index worker.processBlock was called on
     putError       |-> "none",           \* error the queue.put promise rejected with
     put            |-> "pending",        \* queue.put promise: pending, resolved,
                                          \* swallowed (by .catch) or propagated
     log            |-> <<"fetch", "put">>]   \* calls made for the unit, in order

\* faulty variant: worker.processBlock on the next worker of the pool
ProcessWorkerNext(unit) == (unit.workerIdx + 1) % NumWorkers

\* const worker = this.workers[workerIdx]; ... worker.processBlock(height)
ProcessWorker(unit) == unit.workerIdx

\* faulty variant: the round-robin strategy of the dead branch
AssignBatchRoundRobin(heights, workerIdx, shutdown, bufferedHeight, callId) ==
    IF AssignGuard(shutdown)
    THEN [i \in 1 .. Len(heights) |->
             NewUnit(heights[i], (workerIdx + i - 1) % NumWorkers,
                     bufferedHeight, callId)]
    ELSE <<>>

\* faulty variant: the first height is assigned without the isShutdown test
AssignBatchFirstUnguarded(heights, workerIdx, shutdown, bufferedHeight, callId) ==
    [i \in 1 .. (IF AssignGuard(shutdown) THEN Len(heights)
                 ELSE IF heights = <<>> THEN 0 ELSE 1) |->
        NewUnit(heights[i], workerIdx, bufferedHeight, callId)]

\* faulty variant: the fence is read after the counter is set to the last height
AssignBatchLateFence(heights, workerIdx, shutdown, bufferedHeight, callId) ==
    IF AssignGuard(shutdown)
    THEN [i \in 1 .. Len(heights) |->
             NewUnit(heights[i], workerIdx, last(heights), callId)]
    ELSE <<>>

\* heights.map((height) => this.enqueueBlock(height, workerIdx))
AssignBatch(heights, workerIdx, shutdown, bufferedHeight, callId) ==
    IF AssignGuard(shutdown)
    THEN [i \in 1 .. Len(heights) |->
             NewUnit(heights[i], workerIdx, bufferedHeight, callId)]
    ELSE <<>>

\* faulty variant: comparison reversed
IsStaleReversed(bufferedHeight, current) == bufferedHeight < current

\* if (bufferedHeight > this.latestBufferedHeight) -> discard
IsStale(bufferedHeight, current) == bufferedHeight > current

\* faulty variant: isBlockUnavailableError test missing
IsFatalUnlessFlushed(e) == e # "flushed"

\* faulty variant: every error swallowed
IsFatalNever(e) == FALSE

\* catch (e): isTaskFlushedError / isBlockUnavailableError return, else process.exit(1)
IsFatal(e) == e # "flushed" /\ e # "unavailable"

\* faulty variant: every rejection of queue.put swallowed
PutCatchAll(e) == "swallowed"

\* this.queue.put(processBlock).catch((e) => { if (isTaskFlushedError(e)) return; throw e; })
PutCatch(e) == IF e = "flushed" THEN "swallowed" ELSE "propagated"

\* processBlock has returned: the queue resolves the put promise, if not yet settled
Returned(unit, pc) ==
    [unit EXCEPT !.pc = pc,
                 !.result = "returned",
                 !.put = IF @ = "pending" THEN "resolved" ELSE @]

----------------------------------------------------------------------------
\* faulty variant: two tasks at a time
QueueConcurrencyTwo == 1 + 1

\* new AutoQueue(workers * batchSize * 2, 1, timeout, name)
QueueConcurrency == 1

(* AutoQueue: tasks run in admission order, at most QueueConcurrency at a
   time; abort() rejects every task not yet started with TaskFlushedError
   and starts no task afterwards; a task already started runs on. *)

CanStart(q, run, ab) ==
    /\ ~ab
    /\ q # <<>>
    /\ Cardinality(run) < QueueConcurrency

\* the put() promise of a task not yet started rejects with TaskFlushedError;
\* the .catch of enqueueBlock swallows it
Flush(us, q) ==
    [u \in 1 .. Len(us) |->
        IF \E i \in 1 .. Len(q) : q[i] = u
        THEN [us[u] EXCEPT !.pc = "flushed",
                           !.putError = "flushed",
                           !.put = PutCatch("flushed")]
        ELSE us[u]]

----------------------------------------------------------------------------
(* State after construction and init() *)

NoCall ==
    [id |-> 0, pc |-> "done", argHeights |-> <<>>, argLatest |-> None,
     heights |-> <<>>, statuses |-> <<>>, workerIdx |-> None,
     madeShutdown |-> FALSE, sawShutdown |-> FALSE, heightAtCall |-> 0]

Init ==
    /\ latestBufferedHeight = 0
    /\ isShutdown = FALSE
    /\ call = NoCall
    /\ ncalls = 0
    /\ units = <<>>
    /\ fetchCalls = [k \in Pool |-> 0]
    /\ putCalls = 0
    /\ queue = <<>>
    /\ running = {}
    /\ aborted = FALSE
    /\ shutdownPc = "none"
    /\ terminateCalls = [k \in Pool |-> 0]
    /\ terminating = {}
    /\ exitCalls = 0
    /\ exitCode = None
    /\ resets = 0

\* process.exit has not been called: the process is running
Alive == exitCalls = 0

\* no synchronous segment is under way: the statements of onApplicationShutdown
\* before its await run without any other code in between
Yielded == shutdownPc \notin {"flagged", "aborted"}

----------------------------------------------------------------------------
(* enqueueBlocks *)

\* enqueueBlocks up to `await this.getNextWorkerIndex()`, which itself runs up
\* to its `await Promise.all(...getStatus())`.  The caller awaits each call
\* before making the next one.
EnqueueBlocks(heights, latestBufferHeight) ==
    /\ Alive
    /\ Yielded
    /\ call.pc = "done"
    /\ ncalls < MaxCalls
    /\ Len(units) + Len(BypassHeights(heights, latestBufferHeight)) <= MaxUnits
    /\ ncalls' = ncalls + 1
    /\ call' = [id           |-> ncalls + 1,
                pc           |-> "getStatus",
                argHeights   |-> heights,
                argLatest    |-> latestBufferHeight,
                heights      |-> BypassHeights(heights, latestBufferHeight),
                statuses     |-> <<>>,
                workerIdx    |-> None,
                madeShutdown |-> isShutdown,
                sawShutdown  |-> FALSE,
                heightAtCall |-> latestBufferedHeight]
    /\ UNCHANGED <<latestBufferedHeight, isShutdown, units, fetchCalls,
                   putCalls, queue, running, aborted, shutdownPc,
                   terminateCalls, terminating, exitCalls, exitCode, resets>>

\* getNextWorkerIndex after its await: the statuses have arrived
GetNextWorkerIndex(backlogs, randIndex) ==
    /\ Alive
    /\ Yielded
    /\ call.pc = "getStatus"
    /\ randIndex \in RandIndexes(Lowest(StatusesOf(backlogs)))
    /\ call' = [call EXCEPT
                   !.pc = "selected",
                   !.statuses = StatusesOf(backlogs),
                   !.workerIdx = NextWorkerIndex(StatusesOf(backlogs), randIndex)]
    /\ UNCHANGED <<latestBufferedHeight, isShutdown, ncalls, units, fetchCalls,
                   putCalls, queue, running, aborted, shutdownPc,
                   terminateCalls, terminating, exitCalls, exitCode, resets>>

\* enqueueBlocks after `await this.getNextWorkerIndex()`: the map over heights
\* and the update of the counter
EnqueueAssign ==
    /\ Alive
    /\ Yielded
    /\ call.pc = "selected"
    /\ LET new == AssignBatch(call.heights, call.workerIdx, isShutdown,
                              latestBufferedHeight, call.id)
           n   == Len(units)
       IN  /\ units' = units \o new
           /\ queue' = queue \o [i \in 1 .. Len(new) |-> n + i]
           /\ putCalls' = putCalls + Len(new)
           /\ fetchCalls' =
                 [k \in Pool |->
                     fetchCalls[k] +
                     Cardinality({i \in 1 .. Len(new) : new[i].workerIdx = k})]
           /\ call' = [call EXCEPT !.pc = "done",
                                   !.statuses = <<>>,
                                   !.sawShutdown = isShutdown]
    /\ latestBufferedHeight' =
          NextBufferedHeight(call.argLatest, call.heights, latestBufferedHeight)
    /\ UNCHANGED <<isShutdown, ncalls, running, aborted, shutdownPc,
                   terminateCalls, terminating, exitCalls, exitCode, resets>>

----------------------------------------------------------------------------
(* fetchBlock and the processBlock task *)

\* the fetchBlock promise of unit u settles
FetchReturn(u, outcome) ==
    /\ Alive
    /\ Yielded
    /\ units[u].fetch = "pending"
    /\ units' = [units EXCEPT ![u].fetch = outcome]
    /\ UNCHANGED <<latestBufferedHeight, isShutdown, call, ncalls, fetchCalls,
                   putCalls, queue, running, aborted, shutdownPc,
                   terminateCalls, terminating, exitCalls, exitCode, resets>>

\* the queue starts the next task: processBlock runs up to `await pendingBlock`
TaskStart ==
    /\ Alive
    /\ Yielded
    /\ CanStart(queue, running, aborted)
    /\ units' = [units EXCEPT ![Head(queue)].pc = "awaitFetch",
                              ![Head(queue)].log = Append(@, "start")]
    /\ running' = running \cup {Head(queue)}
    /\ queue' = Tail(queue)
    /\ UNCHANGED <<latestBufferedHeight, isShutdown, call, ncalls, fetchCalls,
                   putCalls, aborted, shutdownPc, terminateCalls, terminating,
                   exitCalls, exitCode, resets>>

\* the catch block of processBlock for error e raised by `stage`
Caught(unit, e, stage) ==
    IF IsFatal(e)
    THEN [unit EXCEPT !.caught = e, !.raisedBy = stage, !.pc = "fatal"]
    ELSE [Returned(unit, "swallowed") EXCEPT !.caught = e, !.raisedBy = stage]

\* observation: the fence captured at assignment is above the counter now
Fenced(unit) ==
    IF unit.bufferedHeight > latestBufferedHeight THEN "yes" ELSE "no"

\* unit u's task ends in the catch block
Catch(u, e, stage) ==
    /\ units' = [units EXCEPT
                    ![u] = [Caught(units[u], e, stage) EXCEPT
                               !.staleAtRun = IF stage = "fetch"
                                              THEN Fenced(units[u]) ELSE @]]
    /\ IF IsFatal(e)
       THEN /\ exitCalls' = exitCalls + 1
            /\ exitCode' = ExitStatus
            /\ UNCHANGED running
       ELSE /\ running' = running \ {u}
            /\ UNCHANGED <<exitCalls, exitCode>>

\* `await pendingBlock` settles, then the fencing check, then preProcessBlock
\* is invoked
AwaitFetch(u) ==
    /\ Alive
    /\ Yielded
    /\ u \in running
    /\ units[u].pc = "awaitFetch"
    /\ units[u].fetch # "pending"
    /\ IF units[u].fetch # "ok"
       THEN Catch(u, units[u].fetch, "fetch")
       ELSE /\ IF IsStale(units[u].bufferedHeight, latestBufferedHeight)
               THEN /\ units' = [units EXCEPT
                                    ![u] = [Returned(@, "discarded") EXCEPT
                                               !.stale = Fenced(units[u]),
                                               !.staleAtRun = Fenced(units[u]),
                                               !.log = @ \o <<"header", "check">>]]
                    /\ running' = running \ {u}
               ELSE /\ units' = [units EXCEPT
                                    ![u].stale = Fenced(units[u]),
                                    ![u].staleAtRun = Fenced(units[u]),
                                    ![u].pc = "pre",
                                    ![u].pre = TRUE,
                                    ![u].log = @ \o <<"header", "check", "pre">>]
                    /\ UNCHANGED running
            /\ UNCHANGED <<exitCalls, exitCode>>
    /\ UNCHANGED <<latestBufferedHeight, isShutdown, call, ncalls, fetchCalls,
                   putCalls, queue, aborted, shutdownPc, terminateCalls,
                   terminating, resets>>

\* faulty variant: the fence is compared again before worker.processBlock
PreProcessReturnRechecked(u, outcome) ==
    /\ Alive
    /\ Yielded
    /\ u \in running
    /\ units[u].pc = "pre"
    /\ IF outcome # "ok"
       THEN Catch(u, outcome, "pre")
       ELSE /\ IF IsStale(units[u].bufferedHeight, latestBufferedHeight)
               THEN /\ units' = [units EXCEPT ![u] = Returned(@, "discarded")]
                    /\ running' = running \ {u}
               ELSE /\ units' = [units EXCEPT
                                    ![u].pc = "process",
                                    ![u].proc = TRUE,
                                    ![u].procOn = ProcessWorker(units[u]),
                                    ![u].log = @ \o <<"preReturned", "process">>]
                    /\ UNCHANGED running
            /\ UNCHANGED <<exitCalls, exitCode>>
    /\ UNCHANGED <<latestBufferedHeight, isShutdown, call, ncalls, fetchCalls,
                   putCalls, queue, aborted, shutdownPc, terminateCalls,
                   terminating, resets>>

\* preProcessBlock settles; on success worker.processBlock(height) is invoked
PreProcessReturn(u, outcome) ==
    /\ Alive
    /\ Yielded
    /\ u \in running
    /\ units[u].pc = "pre"
    /\ IF outcome # "ok"
       THEN Catch(u, outcome, "pre")
       ELSE /\ units' = [units EXCEPT
                             ![u].pc = "process",
                             ![u].proc = TRUE,
                             ![u].procOn = ProcessWorker(units[u]),
                             ![u].log = @ \o <<"preReturned", "process">>]
            /\ UNCHANGED <<running, exitCalls, exitCode>>
    /\ UNCHANGED <<latestBufferedHeight, isShutdown, call, ncalls, fetchCalls,
                   putCalls, queue, aborted, shutdownPc, terminateCalls,
                   terminating, resets>>

\* worker.processBlock settles; on success postProcessBlock is invoked
ProcessBlockReturn(u, outcome) ==
    /\ Alive
    /\ Yielded
    /\ u \in running
    /\ units[u].pc = "process"
    /\ IF outcome # "ok"
       THEN Catch(u, outcome, "process")
       ELSE /\ units' = [units EXCEPT
                             ![u].pc = "post",
                             ![u].post = TRUE,
                             ![u].log = @ \o <<"processReturned", "post">>]
            /\ UNCHANGED <<running, exitCalls, exitCode>>
    /\ UNCHANGED <<latestBufferedHeight, isShutdown, call, ncalls, fetchCalls,
                   putCalls, queue, aborted, shutdownPc, terminateCalls,
                   terminating, resets>>

\* postProcessBlock settles; on success processBlock returns
PostProcessReturn(u, outcome) ==
    /\ Alive
    /\ Yielded
    /\ u \in running
    /\ units[u].pc = "post"
    /\ IF outcome # "ok"
       THEN Catch(u, outcome, "post")
       ELSE /\ units' = [units EXCEPT
                             ![u] = [Returned(@, "applied") EXCEPT
                                        !.log = Append(@, "postReturned")]]
            /\ running' = running \ {u}
            /\ UNCHANGED <<exitCalls, exitCode>>
    /\ UNCHANGED <<latestBufferedHeight, isShutdown, call, ncalls, fetchCalls,
                   putCalls, queue, aborted, shutdownPc, terminateCalls,
                   terminating, resets>>

----------------------------------------------------------------------------
(* External reset of the counter, and shutdown *)

\* the surrounding pipeline resets the counter to a lower value
Reset(height) ==
    /\ Alive
    /\ Yielded
    /\ resets < MaxResets
    /\ height < latestBufferedHeight
    /\ latestBufferedHeight' = height
    /\ resets' = resets + 1
    /\ units' = [u \in 1 .. Len(units) |->
                    IF units[u].pc \in {"queued", "awaitFetch"}
                       /\ height < units[u].height
                    THEN [units[u] EXCEPT !.resetBelow = TRUE]
                    ELSE IF units[u].pc \in {"pre", "process"}
                            /\ height < units[u].bufferedHeight
                    THEN [units[u] EXCEPT !.resetAfter = TRUE]
                    ELSE units[u]]
    /\ UNCHANGED <<isShutdown, call, ncalls, fetchCalls, putCalls, queue,
                   running, aborted, shutdownPc, terminateCalls, terminating,
                   exitCalls, exitCode>>

\* faulty variant: the first worker is left out
TerminateAllButFirst(calls) ==
    [k \in Pool |-> IF k = 0 THEN calls[k] ELSE calls[k] + 1]

\* this.workers.map((w) => w.terminate()): terminate() calls per pool index
TerminateAll(calls) == [k \in Pool |-> calls[k] + 1]

\* faulty variant: the flag is not set
OnApplicationShutdownNoFlag ==
    /\ Alive
    /\ shutdownPc = "none"
    /\ shutdownPc' = "flagged"
    /\ UNCHANGED <<latestBufferedHeight, isShutdown, call, ncalls, units,
                   fetchCalls, putCalls, queue, running, aborted,
                   terminateCalls, terminating, exitCalls, exitCode, resets>>

\* onApplicationShutdown, called once: this.isShutdown = true
OnApplicationShutdown ==
    /\ Alive
    /\ Yielded
    /\ shutdownPc = "none"
    /\ isShutdown' = TRUE
    /\ shutdownPc' = "flagged"
    /\ UNCHANGED <<latestBufferedHeight, call, ncalls, units, fetchCalls,
                   putCalls, queue, running, aborted, terminateCalls,
                   terminating, exitCalls, exitCode, resets>>

\* onApplicationShutdown: this.queue.abort()
AbortQueue ==
    /\ shutdownPc = "flagged"
    /\ aborted' = TRUE
    /\ units' = Flush(units, queue)
    /\ queue' = <<>>
    /\ shutdownPc' = "aborted"
    /\ UNCHANGED <<latestBufferedHeight, isShutdown, call, ncalls, fetchCalls,
                   putCalls, running, terminateCalls, terminating, exitCalls,
                   exitCode, resets>>

\* onApplicationShutdown up to `await Promise.all(this.workers.map(terminate))`
TerminateWorkers ==
    /\ shutdownPc = "aborted"
    /\ terminateCalls' = TerminateAll(terminateCalls)
    /\ terminating' = {k \in Pool : terminateCalls'[k] > terminateCalls[k]}
    /\ shutdownPc' = "terminating"
    /\ UNCHANGED <<latestBufferedHeight, isShutdown, call, ncalls, units,
                   fetchCalls, putCalls, queue, running, aborted, exitCalls,
                   exitCode, resets>>

\* the terminate() promise of worker k resolves
TerminateReturn(k) ==
    /\ Alive
    /\ Yielded
    /\ k \in terminating
    /\ terminating' = terminating \ {k}
    /\ UNCHANGED <<latestBufferedHeight, isShutdown, call, ncalls, units,
                   fetchCalls, putCalls, queue, running, aborted, shutdownPc,
                   terminateCalls, exitCalls, exitCode, resets>>

\* Promise.all resolves: onApplicationShutdown returns
ShutdownReturn ==
    /\ Alive
    /\ Yielded
    /\ shutdownPc = "terminating"
    /\ terminating = {}
    /\ shutdownPc' = "done"
    /\ UNCHANGED <<latestBufferedHeight, isShutdown, call, ncalls, units,
                   fetchCalls, putCalls, queue, running, aborted,
                   terminateCalls, terminating, exitCalls, exitCode, resets>>

----------------------------------------------------------------------------

Next ==
    \/ \E heights \in InputBatches, latestBufferHeight \in InputLatest :
          EnqueueBlocks(heights, latestBufferHeight)
    \/ \E backlogs \in [1 .. NumWorkers -> 0 .. MaxBacklog],
          randIndex \in 0 .. (NumWorkers - 1) :
          GetNextWorkerIndex(backlogs, randIndex)
    \/ EnqueueAssign
    \/ \E u \in 1 .. Len(units), outcome \in FetchOutcomes :
          FetchReturn(u, outcome)
    \/ TaskStart
    \/ \E u \in 1 .. Len(units) : AwaitFetch(u)
    \/ \E u \in 1 .. Len(units), outcome \in Outcomes :
          PreProcessReturn(u, outcome)
    \/ \E u \in 1 .. Len(units), outcome \in Outcomes :
          ProcessBlockReturn(u, outcome)
    \/ \E u \in 1 .. Len(units), outcome \in Outcomes :
          PostProcessReturn(u, outcome)
    \/ \E height \in Heights : Reset(height)
    \/ OnApplicationShutdown
    \/ AbortQueue
    \/ TerminateWorkers
    \/ \E k \in Pool : TerminateReturn(k)
    \/ ShutdownReturn

Spec == Init /\ [][Next]_vars

\* the same steps with at most MaxCallsShort invocations of enqueueBlocks
NextShort ==
    \/ \E heights \in InputBatches, latestBufferHeight \in InputLatest :
          /\ EnqueueBlocks(heights, latestBufferHeight)
          /\ ncalls' <= MaxCallsShort
    \/ \E backlogs \in [1 .. NumWorkers -> 0 .. MaxBacklog],
          randIndex \in 0 .. (NumWorkers - 1) :
          GetNextWorkerIndex(backlogs, randIndex)
    \/ EnqueueAssign
    \/ \E u \in 1 .. Len(units), outcome \in FetchOutcomes :
          FetchReturn(u, outcome)
    \/ TaskStart
    \/ \E u \in 1 .. Len(units) : AwaitFetch(u)
    \/ \E u \in 1 .. Len(units), outcome \in Outcomes :
          PreProcessReturn(u, outcome)
    \/ \E u \in 1 .. Len(units), outcome \in Outcomes :
          ProcessBlockReturn(u, outcome)
    \/ \E u \in 1 .. Len(units), outcome \in Outcomes :
          PostProcessReturn(u, outcome)
    \/ \E height \in Heights : Reset(height)
    \/ OnApplicationShutdown
    \/ AbortQueue
    \/ TerminateWorkers
    \/ \E k \in Pool : TerminateReturn(k)
    \/ ShutdownReturn

----------------------------------------------------------------------------
(* The queue's per-task timeout.  It only settles the put promise of a task
   that is being executed, which no other part of the dispatcher reads, so
   it is left out of Spec and added in SpecTimeout. *)

\* the queue rejects the put promise of the running task u with a timeout error
PutTimeout(u) ==
    /\ Alive
    /\ Yielded
    /\ u \in running
    /\ units[u].pc \in {"awaitFetch", "pre", "process", "post"}
    /\ units[u].put = "pending"
    /\ units' = [units EXCEPT ![u].putError = "timeout",
                              ![u].put = PutCatch("timeout")]
    /\ UNCHANGED <<latestBufferedHeight, isShutdown, call, ncalls, fetchCalls,
                   putCalls, queue, running, aborted, shutdownPc,
                   terminateCalls, terminating, exitCalls, exitCode, resets>>

NextTimeout ==
    \/ NextShort
    \/ \E u \in 1 .. Len(units) : PutTimeout(u)

SpecTimeout == Init /\ [][NextTimeout]_vars

----------------------------------------------------------------------------
(* Progress: every promise the dispatcher awaits settles, the queue starts a
   task whenever it has room, and onApplicationShutdown, once entered, runs
   its synchronous lines to the await.  Nothing obliges the host to call
   enqueueBlocks, reset the counter or shut down. *)

Fairness ==
    /\ WF_vars(TaskStart)
    /\ WF_vars(AbortQueue)
    /\ WF_vars(TerminateWorkers)
    /\ \A u \in 1 .. MaxUnits :
          /\ WF_vars(/\ u <= Len(units)
                     /\ \E outcome \in FetchOutcomes : FetchReturn(u, outcome))
          /\ WF_vars(AwaitFetch(u))
          /\ WF_vars(\E outcome \in Outcomes : PreProcessReturn(u, outcome))
          /\ WF_vars(\E outcome \in Outcomes : ProcessBlockReturn(u, outcome))
          /\ WF_vars(\E outcome \in Outcomes : PostProcessReturn(u, outcome))

SpecFair == Init /\ [][NextShort]_vars /\ Fairness

----------------------------------------------------------------------------
(* Properties *)

\* units assigned by enqueueBlocks invocation c
UnitsOf(c) == {u \in 1 .. Len(units) : units[u].call = c}

\* the most recent enqueueBlocks invocation has returned
CallDone == call.id > 0 /\ call.pc = "done"

\* every height of the call's batch has exactly one unit, all on the selected worker
AssignedWholeBatch ==
    /\ Cardinality(UnitsOf(call.id)) = Len(call.argHeights)
    /\ \A i \in 1 .. Len(call.argHeights) :
          Cardinality({u \in UnitsOf(call.id) :
                          units[u].height = call.argHeights[i]}) = 1
    /\ \A u \in UnitsOf(call.id) : units[u].workerIdx = call.workerIdx
    /\ call.workerIdx \in Pool

\* every unit has one fetch on its worker and one queued task
OneFetchOnePut ==
    /\ \A k \in Pool :
          fetchCalls[k] =
             Cardinality({u \in 1 .. Len(units) : units[u].workerIdx = k})
    /\ putCalls = Len(units)

\* neither hook nor the worker's processBlock was invoked for unit u
NotApplied(u) == ~units[u].pre /\ ~units[u].proc /\ ~units[u].post

\* C1 (as stated): every enqueueBlocks call with a non-empty batch that was
\* made before shutdown assigns every height of the batch exactly once (one
\* fetch, one queued task), all to the worker index returned by its one
\* getNextWorkerIndex call.
C1_MadeBeforeShutdown ==
    (CallDone /\ call.argHeights # <<>> /\ ~call.madeShutdown)
        => (AssignedWholeBatch /\ OneFetchOnePut)

\* C1 (amended): every enqueueBlocks call with a non-empty batch whose
\* assignment step (after worker selection) runs while the shutdown flag is
\* not set assigns every height of the batch exactly once (one fetch, one
\* queued task), all to the worker index returned by its one
\* getNextWorkerIndex call.
C1_AssignedToOneWorker ==
    (CallDone /\ call.argHeights # <<>> /\ ~call.sawShutdown)
        => (AssignedWholeBatch /\ OneFetchOnePut)

C1_Witness ==
    /\ CallDone
    /\ Len(call.argHeights) = 2
    /\ ~call.sawShutdown
    /\ Cardinality(UnitsOf(call.id)) = 2
    /\ call.workerIdx = 1

\* C2: a unit whose captured fence is above the counter when its task makes
\* the fencing check is discarded: preProcessBlock, worker.processBlock and
\* postProcessBlock are never invoked for it.
C2_StaleDiscarded ==
    \A u \in 1 .. Len(units) :
        units[u].stale = "yes" => (units[u].pc = "discarded" /\ NotApplied(u))

C2_Witness ==
    \E u \in 1 .. Len(units) :
        units[u].stale = "yes" /\ units[u].pc = "discarded"

\* C3 (as stated): a unit for height H is never applied once a reset has
\* lowered the counter below H after the unit was assigned and before its
\* fencing check, whatever enqueueBlocks calls come in between.
C3_ResetInvalidates ==
    \A u \in 1 .. Len(units) : units[u].resetBelow => NotApplied(u)

\* C4 (as stated): an enqueueBlocks call with an empty batch (assigning
\* before shutdown) assigns exactly one unit, for height latestBufferHeight,
\* whenever latestBufferHeight is supplied, and nothing when it is not.
C4_EmptyBatchBypass ==
    (CallDone /\ call.argHeights = <<>> /\ ~call.sawShutdown)
        => IF call.argLatest # None
           THEN /\ Cardinality(UnitsOf(call.id)) = 1
                /\ \A u \in UnitsOf(call.id) : units[u].height = call.argLatest
           ELSE UnitsOf(call.id) = {}

\* C5: once the shutdown flag is set no step assigns work: no fetchBlock is
\* started on any worker and no task is put on the queue.
C5_NoAssignAfterShutdown ==
    [][isShutdown =>
          /\ Len(units') = Len(units)
          /\ fetchCalls' = fetchCalls
          /\ putCalls' = putCalls]_vars

C5_Witness ==
    /\ CallDone
    /\ call.sawShutdown
    /\ ~call.madeShutdown
    /\ call.heights # <<>>
    /\ UnitsOf(call.id) = {}

\* C6: once onApplicationShutdown has reached its terminate() calls, and so
\* when it has returned, terminate() has been called exactly once on every
\* worker; before that terminate() has been called on none, so no other
\* operation calls it.
C6_TerminateOnce ==
    \A k \in Pool :
        terminateCalls[k] =
           IF shutdownPc \in {"none", "flagged", "aborted"} THEN 0 ELSE 1

C6_Witness ==
    /\ shutdownPc = "done"
    /\ \E u \in 1 .. Len(units) : units[u].pc = "flushed"

\* C7: a work-unavailable error raised by fetchBlock or by worker.processBlock
\* is swallowed by the unit's task: the task returns, process.exit is not
\* called for it, and postProcessBlock is not invoked for the unit.
C7_UnavailableSwallowed ==
    /\ \A u \in 1 .. Len(units) :
          (units[u].caught = "unavailable"
              /\ units[u].raisedBy \in {"fetch", "process"})
          => /\ units[u].pc = "swallowed"
             /\ units[u].result = "returned"
             /\ ~units[u].post
    /\ exitCalls = Cardinality({u \in 1 .. Len(units) : units[u].pc = "fatal"})

C7_Witness ==
    /\ \E u \in 1 .. Len(units) :
          units[u].caught = "unavailable" /\ units[u].raisedBy = "fetch"
    /\ \E u \in 1 .. Len(units) :
          units[u].caught = "unavailable" /\ units[u].raisedBy = "process"
    /\ exitCalls = 0

BacklogOf(statuses, k) == statuses[k + 1].toFetchBlocks

\* pool indices whose worker reported the minimum backlog
LeastLoaded(statuses) ==
    {k \in Pool : \A j \in Pool : BacklogOf(statuses, k) <= BacklogOf(statuses, j)}

\* C9: getNextWorkerIndex returns a pool index whose worker reported the
\* minimum backlog, and the indices it can return are exactly the pool
\* indices of the workers tied at the minimum.
C9_LeastLoadedWorker ==
    call.pc = "selected" =>
        /\ call.workerIdx \in LeastLoaded(call.statuses)
        /\ { NextWorkerIndex(call.statuses, r) :
                r \in RandIndexes(Lowest(call.statuses)) }
             = LeastLoaded(call.statuses)

C9_Witness ==
    /\ call.pc = "selected"
    /\ BacklogOf(call.statuses, 0) > BacklogOf(call.statuses, 1)
    /\ call.workerIdx = 1

\* the step in which the most recent enqueueBlocks invocation returns
CallReturns == call.pc = "selected" /\ call'.pc = "done"

\* C10 (as stated): when an enqueueBlocks call returns the counter equals
\* latestBufferHeight if it was provided, otherwise the last height of the
\* batch if the batch is non-empty, otherwise the counter's value before the
\* call.
C10_ElseValueBeforeCall ==
    [][CallReturns =>
          latestBufferedHeight' =
             IF call.argLatest # None THEN call.argLatest
             ELSE IF call.argHeights # <<>>
                  THEN call.argHeights[Len(call.argHeights)]
                  ELSE call.heightAtCall]_vars

\* C10 (amended): when an enqueueBlocks call returns the counter equals
\* latestBufferHeight if it was provided, otherwise the last height of the
\* batch if the batch is non-empty, otherwise it is left as it stood when the
\* call resumed after worker selection (a reset made during the selection is
\* kept).
C10_CounterAfterEnqueue ==
    [][CallReturns =>
          latestBufferedHeight' =
             IF call.argLatest # None THEN call.argLatest
             ELSE IF call.argHeights # <<>>
                  THEN call.argHeights[Len(call.argHeights)]
                  ELSE latestBufferedHeight]_vars

C10_Witness ==
    /\ CallDone
    /\ call.argLatest = None
    /\ call.argHeights = <<>>
    /\ call.heightAtCall = 1
    /\ latestBufferedHeight = 0
    /\ resets = 1

\* C11: a task-flushed condition is swallowed wherever it surfaces: a put
\* promise rejected with it by abort() is swallowed by the .catch handler, and
\* one raised inside processBlock makes the task return; neither calls
\* process.exit nor leaves a propagated rejection.  Any other rejection of the
\* put promise is rethrown by the .catch handler.
C11_FlushedSwallowed ==
    /\ \A u \in 1 .. Len(units) :
          /\ units[u].putError = "flushed"
                => (units[u].put = "swallowed" /\ units[u].pc = "flushed")
          /\ units[u].caught = "flushed"
                => /\ units[u].pc = "swallowed"
                   /\ units[u].result = "returned"
                   /\ units[u].putError = "none" => units[u].put = "resolved"
          /\ units[u].putError \notin {"none", "flushed"}
                => units[u].put = "propagated"
    /\ exitCalls = Cardinality({u \in 1 .. Len(units) : units[u].pc = "fatal"})
    /\ \A u \in 1 .. Len(units) :
          units[u].pc = "fatal" => units[u].caught \notin {"none", "flushed"}

C11_Witness ==
    /\ \E u \in 1 .. Len(units) :
          units[u].putError = "flushed" /\ units[u].put = "swallowed"
    /\ \E u \in 1 .. Len(units) :
          units[u].caught = "flushed" /\ units[u].putError = "timeout"
    /\ exitCalls = 0

\* C12: onApplicationShutdown sets the flag before it aborts the queue, aborts
\* the queue before it calls terminate() on any worker, and returns only when
\* every terminate() call has completed; the flag, once set, stays set.
C12_ShutdownOrder ==
    /\ [](/\ aborted => isShutdown
          /\ (\E k \in Pool : terminateCalls[k] > 0) => aborted
          /\ shutdownPc = "done"
                => /\ terminating = {}
                   /\ \A k \in Pool : terminateCalls[k] > 0)
    /\ [][isShutdown => isShutdown']_vars

C12_Witness ==
    /\ shutdownPc = "flagged"
    /\ isShutdown
    /\ ~aborted
    /\ queue # <<>>
    /\ \A k \in Pool : terminateCalls[k] = 0

\* a is an initial part of b
IsPrefix(a, b) ==
    /\ Len(a) <= Len(b)
    /\ \A i \in 1 .. Len(a) : a[i] = b[i]

\* the calls made for a unit that is applied, in the order of the claim
UnitOrder ==
    <<"fetch", "put", "start", "header", "check", "pre", "preReturned",
      "process", "processReturned", "post", "postReturned">>

\* C13: for every unit assigned to worker W the calls come in this order: the
\* fetch is started on W, the task is put on the queue, the task awaits the
\* fetched header, makes the fencing check, invokes preProcessBlock, then
\* worker.processBlock on the same worker W, then postProcessBlock; the post
\* hook is invoked only after the pre hook and processBlock have returned
\* without error.
C13_UnitOrder ==
    /\ \A u \in 1 .. Len(units) :
          /\ IsPrefix(units[u].log, UnitOrder)
          /\ units[u].pre => (units[u].fetch = "ok" /\ units[u].stale = "no")
          /\ units[u].proc
                => (units[u].pre /\ units[u].procOn = units[u].workerIdx)
          /\ units[u].post
                => /\ units[u].proc
                   /\ \E i \in 1 .. Len(units[u].log) :
                         units[u].log[i] = "preReturned"
                   /\ \E i \in 1 .. Len(units[u].log) :
                         units[u].log[i] = "processReturned"
    /\ \A k \in Pool :
          fetchCalls[k] =
             Cardinality({u \in 1 .. Len(units) : units[u].workerIdx = k})

C13_Witness ==
    \E u \in 1 .. Len(units) :
        /\ units[u].pc = "applied"
        /\ units[u].log = UnitOrder
        /\ units[u].workerIdx = 1
        /\ units[u].procOn = 1
        /\ fetchCalls[1] > 0

\* units whose task body has started and not ended
Executing ==
    {u \in 1 .. Len(units) :
        units[u].pc \in {"awaitFetch", "pre", "process", "post"}}

\* units whose fetchBlock promise is pending
Fetching == {u \in 1 .. Len(units) : units[u].fetch = "pending"}

\* C14: at most one processBlock task is executing at any time, whatever the
\* number of workers (while more than one fetch can be outstanding).
C14_OneTaskAtATime ==
    /\ Cardinality(Executing) <= 1
    /\ Executing \subseteq running

C14_Witness ==
    /\ Cardinality(Executing) = 1
    /\ Cardinality(Fetching) >= 2
    /\ \E u, v \in Fetching : units[u].workerIdx # units[v].workerIdx

\* C15: tasks are put on the queue in the order of the heights of the batch,
\* the queue keeps that order, and for two units u put before v the pre hook
\* of v is invoked only when the post hook of u has been invoked or u has
\* ended without being applied.
C15_SubmissionOrder ==
    /\ \A i, j \in 1 .. Len(queue) : i < j => queue[i] < queue[j]
    /\ \A u, v \in 1 .. Len(units) :
          (u < v /\ units[u].call = units[v].call)
             => units[u].height < units[v].height
    /\ \A u, v \in 1 .. Len(units) :
          (u < v /\ units[v].pre)
             => (units[u].post \/ units[u].pc \in {"discarded", "swallowed"})

C15_Witness ==
    \E u, v \in 1 .. Len(units) :
        /\ u < v
        /\ units[u].call = units[v].call
        /\ units[u].fetch = "pending"
        /\ units[u].pc = "awaitFetch"
        /\ units[v].fetch = "ok"
        /\ units[v].pc = "queued"

\* the state of a unit in the per-unit state machine; assignment is one
\* synchronous segment that leaves the unit with its fetch started and its
\* task on the queue
UnitState(unit) ==
    CASE unit.pc = "queued" -> "QueuedForProcessing"
      [] unit.pc \in {"awaitFetch", "pre", "process", "post"} -> "Processing"
      [] unit.pc = "applied" -> "Applied"
      [] unit.pc = "discarded" -> "Discarded"
      [] unit.pc = "fatal" -> "Failed-Fatal"
      [] unit.pc = "swallowed" -> "Skipped"
      [] unit.pc = "flushed" -> "Flushed"

\* the steps of the state machine of one unit
UnitSteps(terminal) ==
    {<<"QueuedForProcessing", "Processing">>,
     <<"QueuedForProcessing", "Flushed">>}
       \cup {<<"Processing", t>> : t \in terminal}

\* no unit leaves the state machine in one step, and a new unit enters it
\* with its task on the queue
UnitMoves(terminal) ==
    /\ \A u \in 1 .. Len(units) :
          \/ UnitState(units'[u]) = UnitState(units[u])
          \/ <<UnitState(units[u]), UnitState(units'[u])>>
                \in UnitSteps(terminal)
    /\ \A u \in (Len(units) + 1) .. Len(units') :
          UnitState(units'[u]) = "QueuedForProcessing"

\* what each end state stands for
UnitEnds ==
    \A u \in 1 .. Len(units) :
        /\ UnitState(units[u]) = "Flushed" => aborted
        /\ UnitState(units[u]) = "Applied" => units[u].post
        /\ UnitState(units[u]) = "Discarded" => units[u].stale = "yes"
        /\ UnitState(units[u]) = "Failed-Fatal" => units[u].caught = "error"
        /\ UnitState(units[u]) = "Skipped"
              => units[u].caught \in {"flushed", "unavailable"}

\* unit u is assigned
Assigned(u) == u <= Len(units)

\* unit u has reached one of the states of `terminal`, or the queue was
\* aborted, or the process has exited
Ended(u, terminal) ==
    \/ u <= Len(units) /\ UnitState(units[u]) \in terminal
    \/ aborted
    \/ ~Alive

ThreeStates == {"Applied", "Discarded", "Failed-Fatal"}

FourStates == ThreeStates \cup {"Skipped"}

\* C16 (as stated): every assigned unit follows the state machine and, when
\* its fetch and worker calls return and the queue runs every admitted task,
\* ends in exactly one of Applied, Discarded and Failed-Fatal and in no other
\* state.
C16_ThreeTerminalStates ==
    /\ [][UnitMoves(ThreeStates)]_vars
    /\ []UnitEnds
    /\ \A u \in 1 .. MaxUnits : Assigned(u) ~> Ended(u, ThreeStates)

\* C16 (amended): every assigned unit follows the state machine and, when its
\* fetch and worker calls return and the queue runs every admitted task, ends
\* in exactly one of Applied, Discarded, Failed-Fatal and Skipped, where
\* Skipped is the end of a task that caught a "block unavailable" or a "task
\* flushed" error from the fetch, a hook or worker.processBlock and returned.
C16_FourTerminalStates ==
    /\ [][UnitMoves(FourStates)]_vars
    /\ []UnitEnds
    /\ \A u \in 1 .. MaxUnits : Assigned(u) ~> Ended(u, FourStates)

C16_Witness ==
    \E u \in 1 .. Len(units) :
        /\ UnitState(units[u]) = "Skipped"
        /\ units[u].caught = "unavailable"
        /\ units[u].raisedBy = "process"
        /\ units[u].pre
        /\ ~aborted
        /\ Alive

\* C17 (as stated): a unit whose fence is above the counter when its task
\* resumes from the await of its fetch is dropped silently whatever the fetch
\* outcome: no hook and no worker.processBlock is invoked for it and its task
\* does not call process.exit, also when the fetch failed with an error that
\* is neither "flushed" nor "unavailable".
C17_StaleSilent ==
    \A u \in 1 .. Len(units) :
        units[u].staleAtRun = "yes"
           => (NotApplied(u) /\ units[u].pc # "fatal")

\* C18: when an enqueueBlocks call returns, either every height of its batch
\* has been assigned (one unit each) or none has, whatever the moment
\* onApplicationShutdown sets its flag; none exactly when the flag was set
\* when the assignment ran.
C18_AllOrNone ==
    CallDone
       => /\ Cardinality(UnitsOf(call.id)) \in {0, Len(call.heights)}
          /\ call.sawShutdown => UnitsOf(call.id) = {}
          /\ ~call.sawShutdown
                => /\ Cardinality(UnitsOf(call.id)) = Len(call.heights)
                   /\ \A i \in 1 .. Len(call.heights) :
                         \E u \in UnitsOf(call.id) :
                             units[u].height = call.heights[i]

C18_Witness ==
    /\ CallDone
    /\ Len(call.heights) = 2
    /\ ~call.sawShutdown
    /\ aborted
    /\ Cardinality(UnitsOf(call.id)) = 2
    /\ \A u \in UnitsOf(call.id) : units[u].pc = "flushed"

Checks(unit) ==
    Cardinality({i \in 1 .. Len(unit.log) : unit.log[i] = "check"})

\* C20: the fencing check is made at most once per unit, after the fetch has
\* settled and before preProcessBlock; a unit that passed it is never
\* discarded: when the counter is reset below its fence during preProcessBlock
\* or worker.processBlock, worker.processBlock and then postProcessBlock are
\* still invoked unless a call raises an error.
C20_CheckedOnce ==
    /\ [](\A u \in 1 .. Len(units) :
             /\ Checks(units[u]) <= 1
             /\ units[u].pre => Checks(units[u]) = 1
             /\ units[u].pc = "discarded" => ~units[u].pre)
    /\ [][\A u \in 1 .. Len(units) :
             units[u].resetAfter
                => /\ units'[u].pc # "discarded"
                   /\ (units[u].pc = "pre" /\ units'[u].pc # "pre")
                         => (units'[u].proc \/ units'[u].caught # "none")
                   /\ (units[u].pc = "process" /\ units'[u].pc # "process")
                         => (units'[u].post \/ units'[u].caught # "none")]_vars

C20_Witness ==
    \E u \in 1 .. Len(units) :
        /\ units[u].resetAfter
        /\ units[u].pc = "applied"
        /\ units[u].bufferedHeight > latestBufferedHeight

====
